---- MODULE Spec2Model ----
(***************************************************************************)
(* Model of animation_CircleAndChopperMakeVideo.py: the rotation of a      *)
(* point about the y-axis of a local frame (getNewPosition_yellowPoint),   *)
(* the timer callback that applies it once per tick (loop_func), and the   *)
(* script around them (event loop, video recording, conversion).           *)
(*                                                                         *)
(* Numbers.  The script computes in IEEE doubles.  The model computes in   *)
(* exact rationals <<n, d>> (d > 0, lowest terms), extended by the three   *)
(* values a float division by zero produces: <<1, 0>> (inf), <<-1, 0>>     *)
(* (-inf) and <<0, 0>> (nan).  Every equality below is therefore an        *)
(* equality of real numbers; the floating-point result differs from it by  *)
(* rounding only.                                                          *)
(*                                                                         *)
(* Angles.  np.cos and np.sin are modelled on the angles whose cosine and  *)
(* sine are rational: an angle <<q, m, j>> stands for                      *)
(*     q * (pi/2)  +  m * atan(4/3)  +  j * atan(13/84).                   *)
(***************************************************************************)
EXTENDS Integers, Sequences, FiniteSets, TLC

-----------------------------------------------------------------------------
(* Rational arithmetic *)

Abs(n) == IF n < 0 THEN -n ELSE n

Sign(n) == IF n < 0 THEN -1 ELSE IF n = 0 THEN 0 ELSE 1

RECURSIVE GCD(_, _)
GCD(a, b) == IF b = 0 THEN a ELSE GCD(b, a % b)

\* the rational n/d in lowest terms (d # 0)
Norm(n, d) ==
    LET g == GCD(Abs(n), Abs(d))
        s == Sign(d)
    IN  << (s * n) \div g, (s * d) \div g >>

\* an integer literal of the script
Q(n) == << n, 1 >>

IsFinite(a) == a[2] # 0

IsNaN(a) == a[2] = 0 /\ a[1] = 0

NaN == << 0, 0 >>

RNeg(a) == << -a[1], a[2] >>

\* The element of a one-element set.  The({ e(v) : v \in {x} }) evaluates x
\* once and then e on its value, as an assignment to a local variable does.
The(S) == CHOOSE v \in S : TRUE

\* float addition: nan propagates, inf + (-inf) is nan
RAdd(a, b) ==
    The({ IF IsFinite(v[1]) /\ IsFinite(v[2])
          THEN LET g == GCD(v[1][2], v[2][2])
                   l == (v[1][2] \div g) * v[2][2]
               IN  Norm(v[1][1] * (l \div v[1][2]) + v[2][1] * (l \div v[2][2]), l)
          ELSE IF IsNaN(v[1]) \/ IsNaN(v[2]) THEN NaN
          ELSE IF IsFinite(v[1]) THEN v[2]
          ELSE IF IsFinite(v[2]) THEN v[1]
          ELSE IF v[1] = v[2] THEN v[1] ELSE NaN
          : v \in { << a, b >> } })

\* float multiplication: nan propagates, inf * 0 is nan
RMul(a, b) ==
    The({ IF IsFinite(v[1]) /\ IsFinite(v[2])
          THEN IF v[1][1] = 0 \/ v[2][1] = 0 THEN Q(0)
               ELSE LET g1 == GCD(Abs(v[1][1]), v[2][2])
                        g2 == GCD(Abs(v[2][1]), v[1][2])
                    IN  << (v[1][1] \div g1) * (v[2][1] \div g2),
                           (v[1][2] \div g2) * (v[2][2] \div g1) >>
          ELSE IF IsNaN(v[1]) \/ IsNaN(v[2]) THEN NaN
          ELSE IF v[1][1] = 0 \/ v[2][1] = 0 THEN NaN
          ELSE << Sign(v[1][1]) * Sign(v[2][1]), 0 >>
          : v \in { << a, b >> } })

\* float division: x/0 is +-inf, 0/0 is nan (numpy warns and goes on)
RDiv(a, b) ==
    The({ IF IsFinite(v[1]) /\ IsFinite(v[2])
          THEN IF v[2][1] = 0 THEN << Sign(v[1][1]), 0 >>
               ELSE RMul(v[1], Norm(v[2][2], v[2][1]))
          ELSE IF IsNaN(v[1]) \/ IsNaN(v[2]) THEN NaN
          ELSE IF IsFinite(v[1]) THEN Q(0)
          ELSE IF IsFinite(v[2])
               THEN << Sign(v[1][1]) * (IF v[2][1] < 0 THEN -1 ELSE 1), 0 >>
          ELSE NaN
          : v \in { << a, b >> } })

RSub(a, b) == RAdd(a, RNeg(b))

-----------------------------------------------------------------------------
(* Angles with rational cosine and sine *)

\* product of the complex numbers u and v (pairs of rationals)
CMul(u, v) ==
    The({ << RSub(RMul(w[1][1], w[2][1]), RMul(w[1][2], w[2][2])),
             RAdd(RMul(w[1][1], w[2][2]), RMul(w[1][2], w[2][1])) >>
          : w \in { << u, v >> } })

\* u^n for a complex number u of modulus 1 (u^-1 is the conjugate)
RECURSIVE CPow(_, _)
CPow(u, n) ==
    IF n = 0 THEN << Q(1), Q(0) >>
    ELSE IF n < 0 THEN CPow(<< u[1], RNeg(u[2]) >>, -n)
    ELSE CMul(u, CPow(u, n - 1))

\* cos + i sin of the quarter turn, of atan(4/3) and of atan(13/84)
QuarterTurn == << Q(0), Q(1) >>

Atan43 == << Norm(3, 5), Norm(4, 5) >>

Atan1384 == << Norm(84, 85), Norm(13, 85) >>

\* cos(a) + i sin(a) of the angle a = <<q, m, j>>
CosSin(a) ==
    CMul(CPow(QuarterTurn, a[1]), CMul(CPow(Atan43, a[2]), CPow(Atan1384, a[3])))

\* np.cos, np.sin
Cos(a) == CosSin(a)[1]

Sin(a) == CosSin(a)[2]

\* n * a, reduced modulo one full turn
AngleTimes(n, a) == << (n * a[1]) % 4, n * a[2], n * a[3] >>

AngleNeg(a) == AngleTimes(-1, a)

AngleZero == << 0, 0, 0 >>

\* np.pi/20 = 0.15708 rad; the model takes the nearest angle of small rational
\* cosine and sine, atan(13/84) = 0.15355 rad (cos 84/85, sin 13/85)
PiOver20 == << 0, 0, 1 >>

-----------------------------------------------------------------------------
(* 4x4 matrices (tuples of rows) and 4-vectors of rationals *)

Dot4(u, v) ==
    The({ RAdd(RAdd(RAdd(RMul(w[1][1], w[2][1]), RMul(w[1][2], w[2][2])),
                    RMul(w[1][3], w[2][3])),
               RMul(w[1][4], w[2][4]))
          : w \in { << u, v >> } })

Col(B, c) == << B[1][c], B[2][c], B[3][c], B[4][c] >>

\* A @ B
MatMul(A, B) ==
    The({ [r \in 1..4 |-> [c \in 1..4 |-> Dot4(M[1][r], Col(M[2], c))]]
          : M \in { << A, B >> } })

\* A @ v for a column vector v
MatVec(A, v) ==
    The({ [r \in 1..4 |-> Dot4(M[1][r], M[2])] : M \in { << A, v >> } })

\* the k-th of the three indices of 1..4 other than i
Skip(i, k) == IF k < i THEN k ELSE k + 1

Det3(A) ==
    The({ RAdd(RSub(RMul(a[1][1], RSub(RMul(a[2][2], a[3][3]), RMul(a[2][3], a[3][2]))),
                    RMul(a[1][2], RSub(RMul(a[2][1], a[3][3]), RMul(a[2][3], a[3][1])))),
               RMul(a[1][3], RSub(RMul(a[2][1], a[3][2]), RMul(a[2][2], a[3][1]))))
          : a \in { A } })

\* determinant of A without row i and column j
Minor(A, i, j) == Det3([r \in 1..3 |-> [c \in 1..3 |-> A[Skip(i, r)][Skip(j, c)]]])

Cofactor(A, i, j) == IF (i + j) % 2 = 0 THEN Minor(A, i, j) ELSE RNeg(Minor(A, i, j))

Det(A) ==
    RAdd(RAdd(RAdd(RMul(A[1][1], Cofactor(A, 1, 1)), RMul(A[1][2], Cofactor(A, 1, 2))),
              RMul(A[1][3], Cofactor(A, 1, 3))),
         RMul(A[1][4], Cofactor(A, 1, 4)))

\* a slip: a check that never finds the matrix singular
Singular_never(A) == FALSE

\* np.linalg.inv raises LinAlgError("Singular matrix") on a singular matrix
Singular(A) == Det(A) = Q(0)

\* a slip: the inverse of a rigid transform taken to be its transpose
Inv_transposed(A) == [r \in 1..4 |-> [c \in 1..4 |-> A[c][r]]]

\* np.linalg.inv(A) for a non-singular A
Inv(A) ==
    The({ [r \in 1..4 |-> [c \in 1..4 |-> RDiv(Cofactor(A, c, r), d)]]
          : d \in { Det(A) } })

-----------------------------------------------------------------------------
(* The functions of the script *)

\* a slip: both sines with the same sign
RotationAboutY_symmetric(angle) ==
    The({ << << cs[1], Q(0), cs[2], Q(0) >>,
             << Q(0),  Q(1), Q(0),  Q(0) >>,
             << cs[2], Q(0), cs[1], Q(0) >>,
             << Q(0),  Q(0), Q(0),  Q(1) >> >>
          : cs \in { << Cos(angle), Sin(angle) >> } })

\* a slip: the rotation in the opposite sense
RotationAboutY_lefthanded(angle) ==
    The({ << << cs[1], Q(0), RNeg(cs[2]), Q(0) >>,
             << Q(0),  Q(1), Q(0),        Q(0) >>,
             << cs[2], Q(0), cs[1],       Q(0) >>,
             << Q(0),  Q(0), Q(0),        Q(1) >> >>
          : cs \in { << Cos(angle), Sin(angle) >> } })

\* a slip: cosine and sine exchanged
RotationAboutY_swapped(angle) ==
    The({ << << cs[2],       Q(0), cs[1], Q(0) >>,
             << Q(0),        Q(1), Q(0),  Q(0) >>,
             << RNeg(cs[1]), Q(0), cs[2], Q(0) >>,
             << Q(0),        Q(0), Q(0),  Q(1) >> >>
          : cs \in { << Cos(angle), Sin(angle) >> } })

RotationAboutY(angle) ==
    The({ << << cs[1],       Q(0), cs[2], Q(0) >>,
             << Q(0),        Q(1), Q(0),  Q(0) >>,
             << RNeg(cs[2]), Q(0), cs[1], Q(0) >>,
             << Q(0),        Q(0), Q(0),  Q(1) >> >>
          : cs \in { << Cos(angle), Sin(angle) >> } })

\* a slip: T_Motion = T_01 @ R_y, the point is not taken to the local frame
Motion_noInverse(angle, T) == MatMul(T, RotationAboutY(angle))

\* a slip: T_Motion = T_10 @ R_y @ T_01, the two frames exchanged
Motion_inverseFirst(angle, T) ==
    The({ MatMul(MatMul(m[2], m[1]), T)
          : m \in { << RotationAboutY(angle), Inv(T) >> } })

\* T_Motion = T_01 @ R_y @ T_10 of getNewPosition_yellowPoint
Motion(angle, T) ==
    The({ MatMul(MatMul(T, m[1]), m[2])
          : m \in { << RotationAboutY(angle), Inv(T) >> } })

\* a slip: p_tilde built with 0 as its fourth component
HomogeneousPosition_direction(pt, angle, T) ==
    MatVec(Motion(angle, T), << pt[1], pt[2], pt[3], Q(0) >>)

\* the homogeneous vector T_Motion @ p_tilde of getNewPosition_yellowPoint
\* (the value the function binds to its local p)
HomogeneousPosition(pt, angle, T) ==
    MatVec(Motion(angle, T), << pt[1], pt[2], pt[3], Q(1) >>)

\* the function's return value, for a non-singular T
getNewPosition_yellowPoint(pt, angle, T) ==
    The({ << RDiv(ph[1], ph[4]), RDiv(ph[2], ph[4]), RDiv(ph[3], ph[4]) >>
          : ph \in { HomogeneousPosition(pt, angle, T) } })

-----------------------------------------------------------------------------
(* The script's constants *)

\* T_01: the local frame is the global frame translated to (-40, 0, -20)
ScriptPose ==
    << << Q(1), Q(0), Q(0), Q(-40) >>,
       << Q(0), Q(1), Q(0), Q(0)   >>,
       << Q(0), Q(0), Q(1), Q(-20) >>,
       << Q(0), Q(0), Q(0), Q(1)   >> >>

\* p: the start position of the yellow point
ScriptPoint == << Q(-30), Q(-10), Q(-20) >>

-----------------------------------------------------------------------------
(* Bounds and input sets *)

\* timer ticks before the event loop only accepts the terminate signal
MaxTicks == 3

\* calls of getNewPosition_yellowPoint in a row on one input
MaxCalls == 3

Identity4 == [r \in 1..4 |-> [c \in 1..4 |-> IF r = c THEN Q(1) ELSE Q(0)]]

\* rotation by atan(4/3) about z, origin (1, 2, -1)
PoseAboutZ ==
    << << Norm(3, 5), Norm(-4, 5), Q(0), Q(1)  >>,
       << Norm(4, 5), Norm(3, 5),  Q(0), Q(2)  >>,
       << Q(0),       Q(0),        Q(1), Q(-1) >>,
       << Q(0),       Q(0),        Q(0), Q(1)  >> >>

\* the axes permuted cyclically, origin (2, 0, 1)
PoseCyclic ==
    << << Q(0), Q(0), Q(1), Q(2) >>,
       << Q(1), Q(0), Q(0), Q(0) >>,
       << Q(0), Q(1), Q(0), Q(1) >>,
       << Q(0), Q(0), Q(0), Q(1) >> >>

\* a rotation none of whose axes is a global axis, origin (3, 0, -3)
PoseOblique ==
    << << Norm(-1, 3), Norm(-2, 3), Norm(-2, 3), Q(3)  >>,
       << Norm(2, 3),  Norm(1, 3),  Norm(-2, 3), Q(0)  >>,
       << Norm(2, 3),  Norm(-2, 3), Norm(1, 3),  Q(-3) >>,
       << Q(0),        Q(0),        Q(0),        Q(1)  >> >>

RigidPoses == { Identity4, ScriptPose, PoseAboutZ, PoseCyclic, PoseOblique }

\* invertible, but not rigid: a scaling, a shear, a projective last row
PoseScaled ==
    << << Q(2), Q(0), Q(0), Q(1) >>,
       << Q(0), Q(2), Q(0), Q(0) >>,
       << Q(0), Q(0), Q(2), Q(0) >>,
       << Q(0), Q(0), Q(0), Q(1) >> >>

PoseSheared ==
    << << Q(1), Q(1), Q(0), Q(0) >>,
       << Q(0), Q(1), Q(0), Q(0) >>,
       << Q(0), Q(0), Q(1), Q(2) >>,
       << Q(0), Q(0), Q(0), Q(1) >> >>

PoseProjective ==
    << << Q(1), Q(0), Q(0), Q(0) >>,
       << Q(0), Q(1), Q(0), Q(0) >>,
       << Q(0), Q(0), Q(1), Q(0) >>,
       << Q(1), Q(0), Q(0), Q(1) >> >>

\* not invertible: the local y-axis collapsed; two equal rows
PoseFlat ==
    << << Q(1), Q(0), Q(0), Q(1) >>,
       << Q(0), Q(0), Q(0), Q(0) >>,
       << Q(0), Q(0), Q(1), Q(2) >>,
       << Q(0), Q(0), Q(0), Q(1) >> >>

PoseRepeated ==
    << << Q(1), Q(2), Q(0), Q(1) >>,
       << Q(1), Q(2), Q(0), Q(1) >>,
       << Q(0), Q(0), Q(1), Q(0) >>,
       << Q(0), Q(0), Q(0), Q(1) >> >>

Poses == RigidPoses \cup { PoseScaled, PoseSheared, PoseProjective, PoseFlat, PoseRepeated }

Points == { ScriptPoint, << Q(1), Q(2), Q(0) >>, << Q(0), Q(0), Q(0) >>,
            << Q(2), Q(-1), Q(3) >> }

\* the pairs of a pose and a start point: the script's point, far from the
\* origin, goes with the script's pose and with the identity, which keeps
\* every numerator and denominator of the runs within 32-bit integers
Inputs ==
    { in \in Poses \X Points :
        in[2] = ScriptPoint => in[1] \in { ScriptPose, Identity4 } }

\* 0, pi/2, pi, 3pi/2, +-atan(4/3), pi/2 + atan(4/3)
Angles == { AngleZero, << 1, 0, 0 >>, << 2, 0, 0 >>, << 3, 0, 0 >>,
            << 0, 1, 0 >>, << 0, -1, 0 >>, << 1, 1, 0 >> }

-----------------------------------------------------------------------------
(* State *)

VARIABLES
    T_01,           \* global T_01: the pose of the local frame
    theta,          \* global theta: the rotation step
    p,              \* global p: the current position of the point
    yellowPoint,    \* the position of the vedo Point object
    screen,         \* the position the last rendering shows
    frames,         \* the frames added to the video, each the position it shows
    video,          \* "open" or "closed"
    closes,         \* number of calls of video.close()
    ticks,          \* timer events delivered to loop_func
    pc,             \* where the script is
    animation_mp4,  \* "absent", "old" (from an earlier run) or "new"
    tmp_mp4,        \* whether tmp.mp4 exists
    p_start,        \* the position before the first call
    calls,          \* calls of getNewPosition_yellowPoint made
    p_h,            \* the homogeneous vector of the last call
    p_back,         \* the result of the call with -theta, << >> before it
    raised          \* the exception a call raised, "none" otherwise

vars == << T_01, theta, p, yellowPoint, screen, frames, video, closes, ticks, pc,
           animation_mp4, tmp_mp4, p_start, calls, p_h, p_back, raised >>

scriptVars == << yellowPoint, screen, frames, video, closes, ticks,
                 animation_mp4, tmp_mp4 >>

callVars == << p_start, calls, p_h, p_back, raised >>

-----------------------------------------------------------------------------
(* The script: state when plt.show() starts the event loop *)

\* the rotation steps the loop is run with: the script's np.pi/20, the same
\* step in the opposite sense, and a quarter turn
Steps == { PiOver20, AngleNeg(PiOver20), << 1, 0, 0 >> }

Init ==
    /\ T_01 = ScriptPose
    /\ theta \in Steps
    /\ p = ScriptPoint
    /\ yellowPoint = ScriptPoint
    /\ screen = ScriptPoint
    /\ frames = << >>
    /\ video = "open"
    /\ closes = 0
    /\ ticks = 0
    /\ pc = "show"
    /\ animation_mp4 \in { "absent", "old" }
    /\ tmp_mp4 = FALSE
    /\ p_start = ScriptPoint
    /\ calls = 0
    /\ p_h = << >>
    /\ p_back = << >>
    /\ raised = "none"

\* The statements of loop_func, each a function of the record
\* [p, yellowPoint, screen, frames] of what the callback reads and writes.

\* p = getNewPosition_yellowPoint(p, theta, T_01)
StmtCompute(s) == [s EXCEPT !.p = getNewPosition_yellowPoint(s.p, theta, T_01)]

\* yellowPoint.pos(p)
StmtPos(s) == [s EXCEPT !.yellowPoint = s.p]

\* plt.render()
StmtRender(s) == [s EXCEPT !.screen = s.yellowPoint]

\* video.add_frame(): a screenshot of the rendering window
StmtAddFrame(s) == [s EXCEPT !.frames = Append(s.frames, s.screen)]

\* a slip: the frame is taken before the scene is rendered
LoopBody_captureBeforeRender(s) == StmtRender(StmtAddFrame(StmtPos(StmtCompute(s))))

\* a slip: the frame is added twice
LoopBody_twoFrames(s) == StmtAddFrame(StmtAddFrame(StmtRender(StmtPos(StmtCompute(s)))))

\* the body of loop_func, statement after statement
LoopBody(s) == StmtAddFrame(StmtRender(StmtPos(StmtCompute(s))))

\* the timer goes off while the event loop is idle: loop_func runs to its end
loop_func ==
    /\ pc = "show"
    /\ ticks < MaxTicks
    /\ LET s == LoopBody([p |-> p, yellowPoint |-> yellowPoint, screen |-> screen,
                          frames |-> frames])
       IN  /\ p' = s.p
           /\ yellowPoint' = s.yellowPoint
           /\ screen' = s.screen
           /\ frames' = s.frames
    /\ ticks' = ticks + 1
    /\ UNCHANGED << T_01, theta, pc, video, closes, animation_mp4, tmp_mp4 >>
    /\ UNCHANGED callVars

\* ESC (or the window is closed) while the event loop is idle: plt.show() returns
Terminate ==
    /\ pc = "show"
    /\ pc' = "plt_close"
    /\ UNCHANGED << T_01, theta, p >>
    /\ UNCHANGED scriptVars
    /\ UNCHANGED callVars

\* .close() of the plotter
PlotterClose ==
    /\ pc = "plt_close"
    /\ pc' = "video_close"
    /\ UNCHANGED << T_01, theta, p >>
    /\ UNCHANGED scriptVars
    /\ UNCHANGED callVars

\* video.close(): the recorded frames are merged into tmp.mp4
VideoClose ==
    /\ pc = "video_close"
    /\ video' = "closed"
    /\ closes' = closes + 1
    /\ tmp_mp4' = TRUE
    /\ pc' = "path_exists"
    /\ UNCHANGED << T_01, theta, p, yellowPoint, screen, frames, ticks, animation_mp4 >>
    /\ UNCHANGED callVars

\* if path.exists("./animation.mp4"): os.system("rm animation.mp4")
RemoveOldAnimation ==
    /\ pc = "path_exists"
    /\ animation_mp4 # "absent"
    /\ animation_mp4' = "absent"
    /\ pc' = "ffmpeg"
    /\ UNCHANGED << T_01, theta, p, yellowPoint, screen, frames, video, closes, ticks,
                    tmp_mp4 >>
    /\ UNCHANGED callVars

NoOldAnimation ==
    /\ pc = "path_exists"
    /\ animation_mp4 = "absent"
    /\ pc' = "ffmpeg"
    /\ UNCHANGED << T_01, theta, p >>
    /\ UNCHANGED scriptVars
    /\ UNCHANGED callVars

\* os.system("ffmpeg -i tmp.mp4 -pix_fmt yuv420p animation.mp4")
Ffmpeg ==
    /\ pc = "ffmpeg"
    /\ animation_mp4' = "new"
    /\ pc' = "rm_tmp"
    /\ UNCHANGED << T_01, theta, p, yellowPoint, screen, frames, video, closes, ticks,
                    tmp_mp4 >>
    /\ UNCHANGED callVars

\* os.system("rm tmp.mp4")
RemoveTmp ==
    /\ pc = "rm_tmp"
    /\ tmp_mp4' = FALSE
    /\ pc' = "done"
    /\ UNCHANGED << T_01, theta, p, yellowPoint, screen, frames, video, closes, ticks,
                    animation_mp4 >>
    /\ UNCHANGED callVars

Next ==
    \/ loop_func
    \/ Terminate
    \/ PlotterClose
    \/ VideoClose
    \/ RemoveOldAnimation
    \/ NoOldAnimation
    \/ Ffmpeg
    \/ RemoveTmp

Spec == Init /\ [][Next]_vars

-----------------------------------------------------------------------------
(* The function on its own: inputs drawn from the input sets *)

InitCall ==
    /\ \E in \in Inputs : T_01 = in[1] /\ p = in[2]
    /\ theta \in Angles
    /\ yellowPoint = ScriptPoint
    /\ screen = ScriptPoint
    /\ frames = << >>
    /\ video = "open"
    /\ closes = 0
    /\ ticks = 0
    /\ pc = "call"
    /\ animation_mp4 = "absent"
    /\ tmp_mp4 = FALSE
    /\ p_start = p
    /\ calls = 0
    /\ p_h = << >>
    /\ p_back = << >>
    /\ raised = "none"

\* p = getNewPosition_yellowPoint(p, theta, T_01) returns
CallReturns ==
    /\ pc = "call"
    /\ raised = "none"
    /\ p_back = << >>
    /\ calls < MaxCalls
    /\ ~Singular(T_01)
    /\ p' = getNewPosition_yellowPoint(p, theta, T_01)
    /\ p_h' = HomogeneousPosition(p, theta, T_01)
    /\ calls' = calls + 1
    /\ UNCHANGED << T_01, theta, pc, p_start, p_back, raised >>
    /\ UNCHANGED scriptVars

\* the call raises in np.linalg.inv(T_01): nothing is returned or assigned
CallRaises ==
    /\ pc = "call"
    /\ raised = "none"
    /\ calls < MaxCalls
    /\ Singular(T_01)
    /\ raised' = "LinAlgError"
    /\ calls' = calls + 1
    /\ UNCHANGED << T_01, theta, p, pc, p_start, p_h, p_back >>
    /\ UNCHANGED scriptVars

\* getNewPosition_yellowPoint(p, -theta, T_01) on the result of the first call
CallBack ==
    /\ pc = "call"
    /\ raised = "none"
    /\ calls = 1
    /\ p_back = << >>
    /\ p_back' = getNewPosition_yellowPoint(p, AngleNeg(theta), T_01)
    /\ UNCHANGED << T_01, theta, p, pc, p_start, calls, p_h, raised >>
    /\ UNCHANGED scriptVars

NextCall ==
    \/ CallReturns
    \/ CallRaises
    \/ CallBack

SpecCall == InitCall /\ [][NextCall]_vars

-----------------------------------------------------------------------------
(* Vocabulary of the properties *)

\* T is a rigid transform: orthonormal rotation block, last row [0, 0, 0, 1]
Rigid(T) ==
    /\ T[4] = << Q(0), Q(0), Q(0), Q(1) >>
    /\ \A i, j \in 1..3 :
         RAdd(RAdd(RMul(T[1][i], T[1][j]), RMul(T[2][i], T[2][j])),
              RMul(T[3][i], T[3][j]))
           = IF i = j THEN Q(1) ELSE Q(0)

\* a <= b for finite rationals
RLeq(a, b) == a[1] * b[2] <= b[1] * a[2]

RAbs(a) == << Abs(a[1]), a[2] >>

\* every coordinate of the point pt is within tol of the one of target
Near(pt, target, tol) ==
    \A i \in 1..3 : IsFinite(pt[i]) /\ RLeq(RAbs(RSub(pt[i], target[i])), tol)

\* the coordinates of the global point pt in the local frame of T_01
Local(pt) == MatVec(Inv(T_01), << pt[1], pt[2], pt[3], Q(1) >>)

\* squared distance of a local point to the local y-axis
AxisDistance2(l) == RAdd(RMul(l[1], l[1]), RMul(l[3], l[3]))

-----------------------------------------------------------------------------
(* Properties of getNewPosition_yellowPoint, checked under SpecCall *)

\* C1: identity rotation. For a rigid pose and the angle 0 every call returns
\* the point it was given.
C1_IdentityRotation ==
    (Rigid(T_01) /\ theta = AngleZero /\ calls >= 1) =>
        (raised = "none" /\ p = p_start)

C1_Witness ==
    /\ T_01 = PoseOblique /\ theta = AngleZero /\ calls >= 1
    /\ p_start = << Q(2), Q(-1), Q(3) >> /\ p = p_start

\* C2: rotation composition. For a rigid pose, n calls in a row with the angle
\* theta, each on the result of the one before, give the point that one call
\* with the angle n * theta (mod one full turn) gives.
C2_Composition ==
    (Rigid(T_01) /\ calls >= 1) =>
        p = getNewPosition_yellowPoint(p_start, AngleTimes(calls, theta), T_01)

C2_Witness ==
    /\ T_01 = PoseOblique /\ theta = << 0, 1, 0 >> /\ calls >= 2
    /\ p # p_start
    /\ p = getNewPosition_yellowPoint(p_start, AngleTimes(calls, theta), T_01)

\* C3: round trip. For a rigid pose, the call with -theta on the result of the
\* call with theta returns the original point.
C3_RoundTrip ==
    (Rigid(T_01) /\ p_back # << >>) => p_back = p_start

C3_Witness ==
    /\ T_01 = PoseAboutZ /\ theta = << 0, 1, 0 >> /\ p_back = p_start
    /\ p # p_start

\* C4: with the identity pose the call is the plain rotation about the global
\* y-axis: x' = cos x + sin z, y' = y, z' = -sin x + cos z.
C4_PlainRotation ==
    (T_01 = Identity4 /\ calls = 1) =>
        p = << RAdd(RMul(Cos(theta), p_start[1]), RMul(Sin(theta), p_start[3])),
               p_start[2],
               RAdd(RMul(RNeg(Sin(theta)), p_start[1]), RMul(Cos(theta), p_start[3])) >>

C4_Witness ==
    /\ T_01 = Identity4 /\ calls = 1 /\ theta = << 0, 1, 0 >>
    /\ p_start = << Q(2), Q(-1), Q(3) >>
    /\ p = << Norm(18, 5), Q(-1), Norm(1, 5) >>

\* C5: for a rigid pose the fourth component of T_01 @ R_y @ inv(T_01) @ [p;1]
\* is 1, so the division by it changes nothing and never divides by zero.
C5_HomogeneousOne ==
    (Rigid(T_01) /\ calls >= 1) =>
        /\ p_h[4] = Q(1)
        /\ p = << p_h[1], p_h[2], p_h[3] >>

C5_Witness ==
    /\ T_01 = PoseOblique /\ theta = << 1, 1, 0 >> /\ calls >= 1
    /\ p_h[4] = Q(1) /\ p # p_start

\* C7 as stated: a call with a pose that is not rigid fails with
\* InvalidTransform and returns no point.
C7_Original ==
    (~Rigid(T_01) /\ calls >= 1) =>
        (raised = "InvalidTransform" /\ p = p_start)

\* C7 amended: a call with a singular pose fails in np.linalg.inv with
\* LinAlgError and returns no point; a call with any invertible pose, rigid or
\* not, raises nothing and returns the homogeneous vector's first three
\* components divided by its fourth.
C7_SingularRaises ==
    calls >= 1 =>
        /\ Det(T_01) = Q(0) =>
             (raised = "LinAlgError" /\ p = p_start /\ p_h = << >>)
        /\ Det(T_01) # Q(0) =>
             /\ raised = "none"
             /\ p = << RDiv(p_h[1], p_h[4]), RDiv(p_h[2], p_h[4]), RDiv(p_h[3], p_h[4]) >>

C7_Witness ==
    /\ T_01 = PoseSheared /\ theta = << 1, 0, 0 >> /\ calls = 1
    /\ raised = "none" /\ p # p_start

\* C10: for a rigid pose the calls keep the point's local y-coordinate and its
\* distance to the local y-axis; with the script's pose and start point the
\* global point keeps y = -10 and (x + 40)^2 + (z + 20)^2 = 100.
C10_Circle ==
    (Rigid(T_01) /\ raised = "none") =>
        /\ Local(p)[2] = Local(p_start)[2]
        /\ AxisDistance2(Local(p)) = AxisDistance2(Local(p_start))
        /\ (T_01 = ScriptPose /\ p_start = ScriptPoint) =>
             /\ p[2] = Q(-10)
             /\ RAdd(RMul(RAdd(p[1], Q(40)), RAdd(p[1], Q(40))),
                     RMul(RAdd(p[3], Q(20)), RAdd(p[3], Q(20)))) = Q(100)

C10_Witness ==
    /\ T_01 = ScriptPose /\ p_start = ScriptPoint /\ theta = << 0, 1, 0 >>
    /\ calls >= 2 /\ p # p_start /\ p[2] = Q(-10)

-----------------------------------------------------------------------------
(* Properties of the script, checked under Spec *)

\* the tolerance of "approximately": half a unit of the first decimal
Tolerance == Norm(1, 20)

\* C6 as stated: the first tick moves the point to about (-36.9, -10.0, -17.0).
C6_Original ==
    (theta = PiOver20 /\ ticks = 1) =>
        Near(p, << Norm(-369, 10), Q(-10), Q(-17) >>, Tolerance)

\* C6 amended: the first tick moves the point to about (-30.12, -10.00, -21.56).
C6_FirstTick ==
    (theta = PiOver20 /\ ticks = 1) =>
        Near(p, << Norm(-3012, 100), Q(-10), Norm(-2156, 100) >>, Tolerance)

C6_Witness ==
    /\ T_01 = ScriptPose /\ theta = PiOver20 /\ ticks = 1
    /\ p = << Norm(-512, 17), Q(-10), Norm(-366, 17) >>

\* C8: a tick computes the new position from the current global p, then moves
\* the visual point to it, then renders, then captures the frame; it starts
\* only when the frames of all earlier ticks are captured, and its frame shows
\* the position computed in it.
C8_TickOrder ==
    [][ (ticks' # ticks \/ p' # p \/ yellowPoint' # yellowPoint
           \/ screen' # screen \/ frames' # frames) =>
          /\ ticks' = ticks + 1
          /\ Len(frames) = ticks
          /\ p' = getNewPosition_yellowPoint(p, theta, T_01)
          /\ yellowPoint' = p'
          /\ screen' = p'
          /\ frames' = Append(frames, p') ]_vars

C8_Witness ==
    /\ ticks = 2 /\ Len(frames) = 2 /\ frames[2] = p /\ frames[1] # frames[2]
    /\ yellowPoint = p /\ screen = p /\ p # ScriptPoint

\* C9: frames added = ticks fired in every state; the video is closed once, and
\* only after the terminate signal has ended the event loop; no frame is added
\* to a closed video; animation.mp4 is written and tmp.mp4 removed only after
\* the close.
C9_OneFramePerTick ==
    /\ [](/\ Len(frames) = ticks
          /\ closes <= 1
          /\ (video = "closed") = (closes = 1)
          /\ (video = "closed") = (pc \in { "path_exists", "ffmpeg", "rm_tmp", "done" })
          /\ animation_mp4 = "new" => video = "closed"
          /\ tmp_mp4 => video = "closed")
    /\ [][ /\ frames' # frames =>
                (video' = "open" /\ ticks' = ticks + 1 /\ Len(frames') = Len(frames) + 1)
           /\ closes' # closes => pc \notin { "show" }
           /\ animation_mp4' # animation_mp4 => (video = "closed" /\ video' = "closed")
           /\ tmp_mp4' # tmp_mp4 => video' = "closed" ]_vars

C9_Witness ==
    /\ pc = "done" /\ ticks = 2 /\ Len(frames) = 2 /\ closes = 1
    /\ video = "closed" /\ animation_mp4 = "new" /\ ~tmp_mp4

====
